---- MODULE Spec2Model ----
(***************************************************************************)
(* Model of corr_net/datasets/kinetics.py: the Kinetics dataset.           *)
(*   - _construct_loader: reads the manifest and builds the dataset index  *)
(*   - __getitem__: resolves the sampling parameters, then runs the        *)
(*     decode/retry loop                                                   *)
(*   - __len__                                                             *)
(* Python lists are 1-based sequences here, so list[i] is seq[i + 1].      *)
(***************************************************************************)
EXTENDS Integers, Sequences, FiniteSets, TLC

(* ------------------------------ bounds -------------------------------- *)
\* largest num_retries the constructor is given
MaxRetries == 5
\* longest manifest, in lines
MaxLines == 2

(* ------------------------- program constants -------------------------- *)
\* faulty variant: several clips per video
NumClipsBad == 1 + 1
\* self._num_clips for train, val and test (kinetics.py:78)
NumClips == 1
\* fewest frame files a frame sequence may have (kinetics.py:236)
MinFrames == 5

Modes == {"train", "val", "test"}
\* the concurrent workers calling __getitem__
Callers == {"w1", "w2"}
\* Python None
None == -1

VARIABLES
    cfg,                  \* self.cfg, the configuration (never written)
    mode,                 \* self.mode
    num_retries,          \* self._num_retries
    file_exists,          \* PathManager.exists(path_to_file)
    manifest,             \* f.read().splitlines(), each line split at the separator
    short_cycle,          \* short cycle is used: the index argument is a tuple
    ctor,                 \* position of the constructor
    ctor_err,             \* exception the constructor raised
    clip_idx,             \* enumerate() counter of _construct_loader
    path_to_videos,       \* self._path_to_videos
    labels,               \* self._labels
    spatial_temporal_idx, \* self._spatial_temporal_idx
    video_meta,           \* self._video_meta
    built,                \* the index as it was when construction finished
    pc,                   \* per call: position of __getitem__
    err,                  \* per call: exception raised out of __getitem__
    req,                  \* per call: the index argument
    short_cycle_idx,      \* per call: local short_cycle_idx
    index,                \* per call: local index
    i_try,                \* per call: next value of range(num_retries)
    sp,                   \* per call: resolved sampling parameters
    result,               \* per call: the returned tuple
    hist,                 \* per call: outcome of each attempt so far
    subs,                 \* per call: per attempt, whether randint replaced index
    tgt                   \* per call: the index each attempt targeted

dsvars == <<path_to_videos, labels, spatial_temporal_idx, video_meta>>
ctorvars == <<ctor, ctor_err, clip_idx, built>>
envvars == <<cfg, mode, num_retries, file_exists, manifest, short_cycle>>
callvars == <<pc, err, req, short_cycle_idx, index, i_try, sp, result, hist, subs, tgt>>
vars == <<envvars, ctorvars, dsvars, callvars>>

(* --------------------------- Python helpers --------------------------- *)
\* an empty dict
EmptyDict == [k \in {} |-> 0]

\* int(s) for the strings that occur in manifests; a string outside the
\* domain makes int() raise ValueError
IntOf == ("0" :> 0) @@ ("1" :> 1) @@ ("4" :> 4) @@ ("6" :> 6)

IsInt(s) == s \in DOMAIN IntOf

\* round(n / d) for n >= 0, d > 0: Python 3 rounds halves to even
Round(n, d) ==
    LET q == n \div d
        r == n % d
    IN  IF 2 * r < d THEN q
        ELSE IF 2 * r > d THEN q + 1
        ELSE IF q % 2 = 0 THEN q ELSE q + 1

(* --------------------------- _construct_loader ------------------------ *)
\* number of fields a manifest line must unpack into
Arity(c) == IF c.USE_FRAME_SEQUENCES THEN 5 ELSE 2

\* the unpacking and the int() conversions of one line succeed
LineOk(c, line) ==
    /\ Len(line) = Arity(c)
    /\ IsInt(line[Len(line)])
    /\ c.USE_FRAME_SEQUENCES => IsInt(line[4])

\* os.path.join(PATH_PREFIX, path), as the sequence of joined components
PathOf(c, line) ==
    IF c.USE_FRAME_SEQUENCES
    THEN <<c.PATH_PREFIX, "BharatDSL_dataset", line[1], line[2], line[3]>>
    ELSE <<c.PATH_PREFIX, line[1]>>

\* faulty variant: the key ignores the line number
MetaKeyBad(ci, idx) == idx
\* key of self._video_meta written for replica idx of line clip_idx
MetaKey(ci, idx) == ci * NumClips + idx

\* the dict stored in self._video_meta for one entry
MetaOf(c, line) ==
    IF c.USE_FRAME_SEQUENCES THEN ("num_frames" :> IntOf[line[4]]) ELSE EmptyDict

\* the inner loop "for idx in range(self._num_clips)" for one line, on the
\* index ds = [paths, labels, sti, meta]
RECURSIVE AppendClips(_, _, _, _, _)
AppendClips(c, ds, ci, line, idx) ==
    IF idx >= NumClips THEN ds
    ELSE AppendClips(c,
            [paths |-> Append(ds.paths, PathOf(c, line)),
             labels |-> Append(ds.labels, IntOf[line[Len(line)]]),
             sti |-> Append(ds.sti, idx),
             meta |-> [k \in DOMAIN ds.meta \cup {MetaKey(ci, idx)} |->
                         IF k = MetaKey(ci, idx) THEN MetaOf(c, line)
                         ELSE ds.meta[k]]],
            ci, line, idx + 1)

\* the index a line leaves behind when it raises ValueError: the unpacking
\* (lines 115-121) raises before anything is appended, int(label) (line 127)
\* after the path was appended, and int(num_frames) (line 132) after the
\* path, the label, the replica number and an empty metadata dict were
\* stored; all of them in the first pass of the inner loop
FailedLine(c, ds, ci, line) ==
    IF Len(line) # Arity(c) THEN ds
    ELSE IF ~IsInt(line[Len(line)])
    THEN [ds EXCEPT !.paths = Append(@, PathOf(c, line))]
    ELSE [paths |-> Append(ds.paths, PathOf(c, line)),
          labels |-> Append(ds.labels, IntOf[line[Len(line)]]),
          sti |-> Append(ds.sti, 0),
          meta |-> [k \in DOMAIN ds.meta \cup {MetaKey(ci, 0)} |->
                      IF k = MetaKey(ci, 0) THEN EmptyDict ELSE ds.meta[k]]]

EmptyIndex == [paths |-> <<>>, labels |-> <<>>, sti |-> <<>>, meta |-> EmptyDict]

\* the index after the whole manifest was read (all lines well formed)
RECURSIVE LoadAll(_, _, _, _)
LoadAll(c, lines, ci, ds) ==
    IF ci >= Len(lines) THEN ds
    ELSE LoadAll(c, lines, ci + 1, AppendClips(c, ds, ci, lines[ci + 1], 0))

\* faulty variant: an empty index passes
NonEmptyBad(paths) == Len(paths) >= 0
\* the final assert of _construct_loader
NonEmpty(paths) == Len(paths) > 0

\* __len__
DatasetLen == Len(path_to_videos)

CurrentIndex ==
    [paths |-> path_to_videos, labels |-> labels,
     sti |-> spatial_temporal_idx, meta |-> video_meta]

\* assert PathManager.exists(path_to_file); then the lists are created
CtorOpen ==
    /\ ctor = "start"
    /\ IF file_exists
       THEN /\ ctor' = "reading"
            /\ ctor_err' = ctor_err
       ELSE /\ ctor' = "failed"
            /\ ctor_err' = "AssertionError"
    /\ UNCHANGED <<clip_idx, built, envvars, dsvars, callvars>>

\* one iteration of "for clip_idx, path_label in enumerate(...)"; a line
\* that raises ValueError ends the construction with what it had appended
CtorLine ==
    /\ ctor = "reading"
    /\ clip_idx < Len(manifest)
    /\ LET line == manifest[clip_idx + 1]
       IN  IF LineOk(cfg, line)
           THEN LET ds == AppendClips(cfg, CurrentIndex, clip_idx, line, 0)
                IN  /\ path_to_videos' = ds.paths
                    /\ labels' = ds.labels
                    /\ spatial_temporal_idx' = ds.sti
                    /\ video_meta' = ds.meta
                    /\ clip_idx' = clip_idx + 1
                    /\ UNCHANGED <<ctor, ctor_err>>
           ELSE LET ds == FailedLine(cfg, CurrentIndex, clip_idx, line)
                IN  /\ ctor' = "failed"
                    /\ ctor_err' = "ValueError"
                    /\ path_to_videos' = ds.paths
                    /\ labels' = ds.labels
                    /\ spatial_temporal_idx' = ds.sti
                    /\ video_meta' = ds.meta
                    /\ clip_idx' = clip_idx
    /\ UNCHANGED <<built, envvars, callvars>>

\* the loop is over: assert len(self._path_to_videos) > 0
CtorFinish ==
    /\ ctor = "reading"
    /\ clip_idx >= Len(manifest)
    /\ IF NonEmpty(path_to_videos)
       THEN /\ ctor' = "done"
            /\ built' = CurrentIndex
            /\ ctor_err' = ctor_err
       ELSE /\ ctor' = "failed"
            /\ ctor_err' = "AssertionError"
            /\ built' = built
    /\ UNCHANGED <<clip_idx, envvars, dsvars, callvars>>

(* ------------------ __getitem__: sampling parameters ------------------ *)
\* crop_size of a train/val call (lines 172-179); sc is short_cycle_idx
TrainCropSize(c, sc) ==
    IF sc \in {0, 1}
    THEN Round(c.SHORT_CYCLE_FACTORS[sc + 1][1] * c.DEFAULT_S,
               c.SHORT_CYCLE_FACTORS[sc + 1][2])
    ELSE c.TRAIN_CROP_SIZE

\* faulty variant: min_scale is rescaled in a short cycle only
TrainMinScaleBad(c, sc) ==
    IF c.DEFAULT_S > 0 /\ sc \in {0, 1}
    THEN Round(c.TRAIN_JITTER_SCALES[1] * TrainCropSize(c, sc), c.DEFAULT_S)
    ELSE c.TRAIN_JITTER_SCALES[1]
\* min_scale of a train/val call (lines 170, 180-189)
TrainMinScale(c, sc) ==
    IF c.DEFAULT_S > 0
    THEN Round(c.TRAIN_JITTER_SCALES[1] * TrainCropSize(c, sc), c.DEFAULT_S)
    ELSE c.TRAIN_JITTER_SCALES[1]

\* faulty variant: the requested index itself is divided
TestTemporalBad(c, s, idx) == idx \div c.NUM_SPATIAL_CROPS
\* temporal_sample_index of a test call (lines 191-194); s is
\* self._spatial_temporal_idx[index]
TestTemporal(c, s, idx) == s \div c.NUM_SPATIAL_CROPS

\* spatial_sample_index of a test call (lines 198-205)
TestSpatial(c, s) ==
    IF c.NUM_SPATIAL_CROPS > 1 THEN s % c.NUM_SPATIAL_CROPS ELSE 1

\* <<min_scale, max_scale, crop_size>> of a test call (lines 206-211)
TestScales(c) ==
    IF c.NUM_SPATIAL_CROPS > 1
    THEN <<c.TEST_CROP_SIZE, c.TEST_CROP_SIZE, c.TEST_CROP_SIZE>>
    ELSE <<c.TRAIN_JITTER_SCALES[1], c.TRAIN_JITTER_SCALES[1], c.TEST_CROP_SIZE>>

\* the values utils.get_random_sampling_rate may return: the configured
\* rate, or a random rate up to the long cycle rate when one is set
SamplingRates(c) ==
    IF c.LONG_CYCLE_SAMPLING_RATE > 0
    THEN c.SAMPLING_RATE .. c.LONG_CYCLE_SAMPLING_RATE
    ELSE {c.SAMPLING_RATE}

\* lines 166-222: the parameters of one call, for the drawn sampling rate
Resolve(c, m, sti, idx, sc, rate) ==
    IF m \in {"train", "val"}
    THEN [temporal_sample_index |-> -1,
          spatial_sample_index |-> -1,
          min_scale |-> TrainMinScale(c, sc),
          max_scale |-> c.TRAIN_JITTER_SCALES[2],
          crop_size |-> TrainCropSize(c, sc),
          sampling_rate |-> rate]
    ELSE [temporal_sample_index |-> TestTemporal(c, sti[idx + 1], idx),
          spatial_sample_index |-> TestSpatial(c, sti[idx + 1]),
          min_scale |-> TestScales(c)[1],
          max_scale |-> TestScales(c)[2],
          crop_size |-> TestScales(c)[3],
          sampling_rate |-> rate]

(* -------------------- __getitem__: the retry loop --------------------- *)
\* faulty variant: the attempts are counted from one
ShouldReplaceBad(m, i, n) == m \notin {"test"} /\ i + 1 > n \div 2
\* faulty variant: the threshold itself replaces already
ShouldReplaceGe(m, i, n) == m \notin {"test"} /\ i >= n \div 2
\* lines 252-255, 292-295, 323-326: the failed attempt i replaces the index
ShouldReplace(m, i, n) == m \notin {"test"} /\ i > n \div 2

\* lines 234-237: the frame files found do not fit the manifest entry
FrameCheckFails(found, declared) == found # declared \/ found < MinFrames

\* numbers of frame files glob may find for a clip
FrameCounts == {4, 5, 6}

\* faulty variant: the variable is an attribute shared by all calls
SetLocalBad(f, c, v) == [d \in DOMAIN f |-> v]
\* assignment to a local variable of the call c
SetLocal(f, c, v) == [f EXCEPT ![c] = v]

\* faulty variant: the label of the requested index
LabelOfBad(lbls, idx, r) == lbls[r + 1]
\* the label returned for the effective index idx, whose call asked for r
LabelOf(lbls, idx, r) == lbls[idx + 1]

\* __getitem__ down to the loop: unpack the argument, resolve the parameters
Start(c, idx, sc) ==
    /\ ctor = "done"
    /\ pc[c] \in {"idle", "returned", "raised"}
    /\ \E rate \in SamplingRates(cfg) :
         LET p == Resolve(cfg, mode, spatial_temporal_idx, idx, sc, rate)
         IN  /\ sp' = SetLocal(sp, c, p)
             /\ IF mode = "test" /\ Cardinality({p.min_scale, p.max_scale}) # 1
                THEN /\ pc' = SetLocal(pc, c, "raised")
                     /\ err' = SetLocal(err, c, "AssertionError")
                ELSE /\ pc' = SetLocal(pc, c, "loop")
                     /\ err' = SetLocal(err, c, "none")
    /\ req' = SetLocal(req, c, idx)
    /\ short_cycle_idx' = SetLocal(short_cycle_idx, c, sc)
    /\ index' = SetLocal(index, c, idx)
    /\ i_try' = SetLocal(i_try, c, 0)
    /\ result' = SetLocal(result, c, <<>>)
    /\ hist' = SetLocal(hist, c, <<>>)
    /\ subs' = SetLocal(subs, c, <<>>)
    /\ tgt' = SetLocal(tgt, c, <<>>)
    /\ UNCHANGED <<envvars, ctorvars, dsvars>>

\* the loop body is entered with the next value of range(num_retries)
InLoop(c) == pc[c] = "loop" /\ i_try[c] < num_retries

\* faulty variant: randint(0, n), whose upper end is included
RandomIndexBad(n) == 0 .. n
\* the values of random.randint(0, n - 1) (lines 257, 297, 328)
RandomIndex(n) == 0 .. (n - 1)

\* faulty variant: the sampling rate is drawn again for the next attempt
SoftFailBad(c, kind) ==
    LET replace == ShouldReplace(mode, i_try[c], num_retries)
    IN  /\ \E new \in (IF replace THEN RandomIndex(DatasetLen) ELSE {index[c]}) :
             index' = SetLocal(index, c, new)
        /\ \E rate \in SamplingRates(cfg) :
             sp' = SetLocal(sp, c, [sp[c] EXCEPT !.sampling_rate = rate])
        /\ subs' = SetLocal(subs, c, Append(subs[c], replace))
        /\ hist' = SetLocal(hist, c, Append(hist[c], kind))
        /\ tgt' = SetLocal(tgt, c, Append(tgt[c], index[c]))
        /\ i_try' = SetLocal(i_try, c, i_try[c] + 1)
        /\ UNCHANGED <<pc, err, req, short_cycle_idx, result>>
        /\ UNCHANGED <<envvars, ctorvars, dsvars>>

\* the warning, the optional random.randint and "continue"
SoftFail(c, kind) ==
    LET replace == ShouldReplace(mode, i_try[c], num_retries)
    IN  /\ \E new \in (IF replace THEN RandomIndex(DatasetLen) ELSE {index[c]}) :
             index' = SetLocal(index, c, new)
        /\ subs' = SetLocal(subs, c, Append(subs[c], replace))
        /\ hist' = SetLocal(hist, c, Append(hist[c], kind))
        /\ tgt' = SetLocal(tgt, c, Append(tgt[c], index[c]))
        /\ i_try' = SetLocal(i_try, c, i_try[c] + 1)
        /\ UNCHANGED <<pc, err, req, short_cycle_idx, sp, result>>
        /\ UNCHANGED <<envvars, ctorvars, dsvars>>

\* faulty variant: the exception of get_video_container is not caught
OpenFailBad(c) ==
    /\ InLoop(c)
    /\ ~cfg.USE_FRAME_SEQUENCES
    /\ pc' = SetLocal(pc, c, "raised")
    /\ err' = SetLocal(err, c, "OSError")
    /\ hist' = SetLocal(hist, c, Append(hist[c], "open_fail"))
    /\ subs' = SetLocal(subs, c, Append(subs[c], FALSE))
    /\ tgt' = SetLocal(tgt, c, Append(tgt[c], index[c]))
    /\ UNCHANGED <<req, short_cycle_idx, index, i_try, sp, result>>
    /\ UNCHANGED <<envvars, ctorvars, dsvars>>

\* lines 272-298: get_video_container raises, video_container stays None
OpenFail(c) ==
    /\ InLoop(c)
    /\ ~cfg.USE_FRAME_SEQUENCES
    /\ SoftFail(c, "open_fail")

\* lines 228-242: the frame check raises; the handler's logger.info call
\* formats two fields with one argument, which raises IndexError
FrameCheckFail(c) ==
    /\ InLoop(c)
    /\ cfg.USE_FRAME_SEQUENCES
    /\ \E found \in FrameCounts :
         FrameCheckFails(found, video_meta[index[c]]["num_frames"])
    /\ pc' = SetLocal(pc, c, "raised")
    /\ err' = SetLocal(err, c, "IndexError")
    /\ hist' = SetLocal(hist, c, Append(hist[c], "open_fail"))
    /\ subs' = SetLocal(subs, c, Append(subs[c], FALSE))
    /\ tgt' = SetLocal(tgt, c, Append(tgt[c], index[c]))
    /\ UNCHANGED <<req, short_cycle_idx, index, i_try, sp, result>>
    /\ UNCHANGED <<envvars, ctorvars, dsvars>>

\* the clip at the current index was opened (lines 230-237 or 274-278)
Opened(c) ==
    IF cfg.USE_FRAME_SEQUENCES
    THEN \E found \in FrameCounts :
           ~FrameCheckFails(found, video_meta[index[c]]["num_frames"])
    ELSE TRUE

\* lines 262-268 or 302-312, then 316-329: the decoder returns None
DecodeFail(c) ==
    /\ InLoop(c)
    /\ Opened(c)
    /\ SoftFail(c, "decode_fail")

\* lines 331-350: frames were decoded; transform them and return
Success(c) ==
    /\ InLoop(c)
    /\ Opened(c)
    /\ result' = SetLocal(result, c,
                   [label |-> LabelOf(labels, index[c], req[c]),
                    index |-> index[c],
                    meta |-> EmptyDict])
    /\ pc' = SetLocal(pc, c, "returned")
    /\ hist' = SetLocal(hist, c, Append(hist[c], "ok"))
    /\ subs' = SetLocal(subs, c, Append(subs[c], FALSE))
    /\ tgt' = SetLocal(tgt, c, Append(tgt[c], index[c]))
    /\ UNCHANGED <<err, req, short_cycle_idx, index, i_try, sp>>
    /\ UNCHANGED <<envvars, ctorvars, dsvars>>

\* lines 351-356: range(num_retries) is used up, the for-else raises
Exhaust(c) ==
    /\ pc[c] = "loop"
    /\ i_try[c] >= num_retries
    /\ pc' = SetLocal(pc, c, "raised")
    /\ err' = SetLocal(err, c, "RuntimeError")
    /\ UNCHANGED <<req, short_cycle_idx, index, i_try, sp, result, hist, subs, tgt>>
    /\ UNCHANGED <<envvars, ctorvars, dsvars>>

(* --------------------------- initial states --------------------------- *)
\* short_cycle_idx of a call: None for a plain index, else the second
\* element of the tuple, of which 0 and 1 select a short cycle factor
ShortCycleArgs(used) == IF used THEN {0, 1, 2} ELSE {None}

\* the configurations explored
Configs ==
    [USE_FRAME_SEQUENCES : BOOLEAN,
     PATH_PREFIX : {"data"},
     NUM_SPATIAL_CROPS : {1, 3},
     TEST_CROP_SIZE : {256},
     TRAIN_JITTER_SCALES : {<<256, 320>>},
     TRAIN_CROP_SIZE : {224},
     DEFAULT_S : {0, 128},
     SHORT_CYCLE_FACTORS : {<<<<1, 2>>, <<7071, 10000>>>>},
     LONG_CYCLE_SAMPLING_RATE : {0, 9},
     SAMPLING_RATE : {8}]

\* each mode with the settings it reads: the multigrid scale in train and
\* val, the number of spatial crops in test
ModeConfigs(m) ==
    {c \in Configs : IF m = "test" THEN c.DEFAULT_S = 0
                     ELSE c.NUM_SPATIAL_CROPS = 3}

\* well-formed manifest lines of either record shape, already split
GoodLines(c) ==
    IF c.USE_FRAME_SEQUENCES
    THEN << <<"train", "c0", "s0", "6", "0">>,
            <<"train", "c1", "s1", "4", "1">>,
            <<"train", "c0", "s2", "6", "0">> >>
    ELSE << <<"v0", "0">>, <<"v1", "1">>, <<"v2", "0">> >>

\* lines that do not parse: a blank line, a label or a frame count that is
\* not a number
BadLines == { <<"">>, <<"v3", "x">>, <<"train", "c0", "s3", "x", "0">> }

LinePool ==
    BadLines \cup UNION {{GoodLines(c)[k] : k \in 1 .. 2} : c \in Configs}

\* no call has been made
NoParams ==
    [temporal_sample_index |-> 0, spatial_sample_index |-> 0, min_scale |-> 0,
     max_scale |-> 0, crop_size |-> 0, sampling_rate |-> 0]
NoResult == [label |-> None, index |-> None, meta |-> EmptyDict]

InitCalls ==
    /\ pc = [c \in Callers |-> "idle"]
    /\ err = [c \in Callers |-> "none"]
    /\ req = [c \in Callers |-> 0]
    /\ short_cycle_idx = [c \in Callers |-> None]
    /\ index = [c \in Callers |-> 0]
    /\ i_try = [c \in Callers |-> 0]
    /\ sp = [c \in Callers |-> NoParams]
    /\ result = [c \in Callers |-> NoResult]
    /\ hist = [c \in Callers |-> <<>>]
    /\ subs = [c \in Callers |-> <<>>]
    /\ tgt = [c \in Callers |-> <<>>]

\* __init__ up to the call of _construct_loader, for any manifest file
InitLoad ==
    /\ mode \in Modes
    /\ num_retries = MaxRetries
    /\ cfg \in {c \in Configs : c.NUM_SPATIAL_CROPS = 3 /\ c.DEFAULT_S = 0
                                 /\ c.LONG_CYCLE_SAMPLING_RATE = 0}
    /\ file_exists \in BOOLEAN
    /\ short_cycle = FALSE
    /\ manifest \in IF file_exists
                    THEN UNION {[1 .. k -> LinePool] : k \in 0 .. MaxLines}
                    ELSE {<<>>}
    /\ ctor = "start"
    /\ ctor_err = "none"
    /\ clip_idx = 0
    /\ path_to_videos = <<>>
    /\ labels = <<>>
    /\ spatial_temporal_idx = <<>>
    /\ video_meta = EmptyDict
    /\ built = EmptyIndex
    /\ InitCalls

\* a dataset right after a successful construction
Constructed(modes, retries, cfgs, cycles) ==
    /\ mode \in modes
    /\ short_cycle \in cycles
    /\ num_retries \in retries
    /\ cfg \in cfgs \cap ModeConfigs(mode)
    /\ file_exists = TRUE
    /\ manifest \in {SubSeq(GoodLines(cfg), 1, k) : k \in 1 .. MaxLines}
    /\ ctor = "done"
    /\ ctor_err = "none"
    /\ clip_idx = Len(manifest)
    /\ built = LoadAll(cfg, manifest, 0, EmptyIndex)
    /\ path_to_videos = built.paths
    /\ labels = built.labels
    /\ spatial_temporal_idx = built.sti
    /\ video_meta = built.meta
    /\ InitCalls

Init == Constructed(Modes, 0 .. MaxRetries, Configs, BOOLEAN)

\* two concurrent workers on the longest manifest, training or testing with
\* a long cycle sampling rate, no multigrid scale and no short cycle
InitConc ==
    /\ Constructed({"train", "test"}, {MaxRetries - 2},
                   {c \in Configs : /\ c.LONG_CYCLE_SAMPLING_RATE = 9
                                     /\ c.DEFAULT_S = 0},
                   {FALSE})
    /\ Len(manifest) = MaxLines

(* --------------------------- specifications --------------------------- *)
NextLoad ==
    \/ CtorOpen
    \/ CtorLine
    \/ CtorFinish

SpecLoad == InitLoad /\ [][NextLoad]_vars

\* the calls of one worker
Next ==
    \/ \E idx \in 0 .. (DatasetLen - 1), sc \in ShortCycleArgs(short_cycle) : Start("w1", idx, sc)
    \/ OpenFail("w1")
    \/ FrameCheckFail("w1")
    \/ DecodeFail("w1")
    \/ Success("w1")
    \/ Exhaust("w1")

Spec == Init /\ [][Next]_vars

\* the calls of all workers, interleaved
NextConc ==
    \/ \E c \in Callers, idx \in 0 .. (DatasetLen - 1), sc \in ShortCycleArgs(short_cycle) :
         Start(c, idx, sc)
    \/ \E c \in Callers : OpenFail(c)
    \/ \E c \in Callers : FrameCheckFail(c)
    \/ \E c \in Callers : DecodeFail(c)
    \/ \E c \in Callers : Success(c)
    \/ \E c \in Callers : Exhaust(c)

SpecConc == InitConc /\ [][NextConc]_vars

(* ------------------------------- claims ------------------------------- *)
Last(seq) == seq[Len(seq)]
Failures == {"open_fail", "decode_fail"}

\* the step is a failed attempt of call c that goes on to the next attempt
SoftFailStep(c) ==
    /\ Len(hist'[c]) = Len(hist[c]) + 1
    /\ Last(hist'[c]) \in Failures
    /\ pc'[c] = "loop"

\* C1: a train call whose attempts all failed has made exactly num_retries
\* attempts, has replaced the index only after more than num_retries/2
\* failed attempts, and has raised the exhaustion error (RuntimeError)
C1_Exhaustion ==
    \A c \in Callers :
        (mode = "train" /\ pc[c] = "raised") =>
            /\ err[c] = "RuntimeError"
            /\ Len(hist[c]) = num_retries
            /\ \A k \in DOMAIN subs[c] : subs[c][k] => 2 * k > num_retries

\* C2: in test mode every attempt targets the requested index, a successful
\* call returns it, and a failed call has raised the exhaustion error after
\* num_retries attempts
C2_TestNoSubstitution ==
    \A c \in Callers :
        mode = "test" =>
            /\ \A k \in DOMAIN tgt[c] : tgt[c][k] = req[c]
            /\ pc[c] = "returned" => result[c].index = req[c]
            /\ pc[c] = "raised" =>
                   err[c] = "RuntimeError" /\ Len(hist[c]) = num_retries

\* C3: in frame-sequence mode an attempt whose frame check failed is a soft
\* failure: it is counted, no exception of the attempt leaves the call, and
\* the loop goes on (to the next attempt or to exhaustion)
C3_FrameCheckSoftFail ==
    \A c \in Callers :
        (cfg.USE_FRAME_SEQUENCES /\ hist[c] # <<>> /\ Last(hist[c]) = "open_fail") =>
            /\ i_try[c] = Len(hist[c])
            /\ pc[c] = "loop" \/ (pc[c] = "raised" /\ err[c] = "RuntimeError")

\* C4 as stated: on every soft failure the index is replaced by a random one
\* iff the attempts made so far, the failed one included, exceed
\* num_retries/2 and the mode is not test; otherwise the index is kept
C4_Original ==
    [][\A c \in Callers :
         SoftFailStep(c) =>
            /\ Last(subs'[c]) <=>
                   (2 * Len(hist'[c]) > num_retries /\ mode # "test")
            /\ ~Last(subs'[c]) => index'[c] = index[c]]_vars

\* C4 amended: on every soft failure the index is replaced by a random one
\* iff the zero-based number of the failed attempt exceeds num_retries // 2
\* (the attempts made so far exceed num_retries // 2 + 1) and the mode is not
\* test; otherwise the index is kept
C4_ReplaceThreshold ==
    [][\A c \in Callers :
         SoftFailStep(c) =>
            /\ Last(subs'[c]) <=>
                   (Len(hist'[c]) > (num_retries \div 2) + 1 /\ mode # "test")
            /\ ~Last(subs'[c]) => index'[c] = index[c]]_vars

\* a call is past num_retries/2 failed attempts with the index kept, and has
\* later replaced it
C4_Witness ==
    \E c \in Callers :
        /\ pc[c] = "loop"
        /\ mode # "test"
        /\ \E j, k \in DOMAIN subs[c] :
              /\ ~subs[c][j] /\ 2 * j > num_retries
              /\ subs[c][k] /\ hist[c][k] = "open_fail"
        /\ index[c] # req[c]

\* C5: a successful call returns the manifest label of the returned index,
\* the index of the clip that was decoded, and an empty metadata mapping
C5_ReturnedLabel ==
    \A c \in Callers :
        pc[c] = "returned" =>
            /\ result[c].label = labels[result[c].index + 1]
            /\ result[c].index = Last(tgt[c])
            /\ result[c].meta = EmptyDict

\* a call succeeded on a substituted index whose label is not the label of
\* the requested index
C5_Witness ==
    \E c \in Callers :
        /\ pc[c] = "returned"
        /\ result[c].index # req[c]
        /\ result[c].label # labels[req[c] + 1]
        /\ \E k \in DOMAIN subs[c] : subs[c][k]

\* a test call has resolved its parameters
TestCall(c) == mode = "test" /\ pc[c] # "idle"

\* C6 as stated: a test call for index idx uses temporal_sample_index
\* idx // num_spatial_crops and spatial_sample_index idx % num_spatial_crops
\* (1 if num_spatial_crops is 1), with min_scale = max_scale
C6_Original ==
    \A c \in Callers :
        TestCall(c) =>
            /\ sp[c].temporal_sample_index = req[c] \div cfg.NUM_SPATIAL_CROPS
            /\ sp[c].spatial_sample_index =
                   (IF cfg.NUM_SPATIAL_CROPS = 1 THEN 1
                    ELSE req[c] % cfg.NUM_SPATIAL_CROPS)
            /\ sp[c].min_scale = sp[c].max_scale

\* C6 amended: a test call for index idx uses the entry's
\* spatial_temporal_index s = _spatial_temporal_idx[idx], not idx itself:
\* temporal_sample_index s // num_spatial_crops and spatial_sample_index
\* s % num_spatial_crops (1 if num_spatial_crops is 1), with
\* min_scale = max_scale
C6_TestSampling ==
    \A c \in Callers :
        TestCall(c) =>
            /\ sp[c].temporal_sample_index =
                   spatial_temporal_idx[req[c] + 1] \div cfg.NUM_SPATIAL_CROPS
            /\ sp[c].spatial_sample_index =
                   (IF cfg.NUM_SPATIAL_CROPS = 1 THEN 1
                    ELSE spatial_temporal_idx[req[c] + 1] % cfg.NUM_SPATIAL_CROPS)
            /\ sp[c].min_scale = sp[c].max_scale
            /\ err[c] # "AssertionError"

\* a test call for an index that is at least num_spatial_crops is running
C6_Witness ==
    \E c \in Callers :
        /\ TestCall(c)
        /\ pc[c] = "loop"
        /\ req[c] >= cfg.NUM_SPATIAL_CROPS
        /\ sp[c].temporal_sample_index = 0

\* C7: a constructed index has exactly K x R entries for the K lines of the
\* manifest and the replica count R, in each of paths, labels,
\* spatial-temporal indices and metadata, and __len__ returns K x R
C7_IndexSize ==
    ctor = "done" =>
        /\ Len(path_to_videos) = Len(manifest) * NumClips
        /\ Len(labels) = Len(manifest) * NumClips
        /\ Len(spatial_temporal_idx) = Len(manifest) * NumClips
        /\ DOMAIN video_meta = 0 .. (Len(manifest) * NumClips - 1)
        /\ DatasetLen = Len(manifest) * NumClips

\* a manifest of several lines was loaded
C7_Witness ==
    /\ ctor = "done"
    /\ Len(manifest) >= 2
    /\ DatasetLen >= 2

\* C8: construction never completes when the manifest file is absent or
\* yields no entry, it fails with the assertion error instead; so every
\* constructed dataset has __len__ > 0
C8_NonEmptyIndex ==
    /\ ctor = "done" => (file_exists /\ manifest # <<>> /\ DatasetLen > 0)
    /\ (ctor = "failed" /\ (~file_exists \/ manifest = <<>>)) =>
           ctor_err = "AssertionError"

\* the construction from an existing, empty manifest has failed
C8_Witness ==
    /\ ctor = "failed"
    /\ file_exists
    /\ manifest = <<>>
    /\ ctor_err = "AssertionError"

\* C9: two test calls with the same index and the same outcome of each
\* attempt use the same sampling parameters, sampling rate included, make the
\* same attempts and return the same index and label
C9_TestReproducible ==
    \A c, d \in Callers :
        (mode = "test" /\ pc[c] # "idle" /\ pc[d] # "idle"
            /\ req[c] = req[d] /\ hist[c] = hist[d]) =>
            /\ sp[c] = sp[d]
            /\ tgt[c] = tgt[d]
            /\ index[c] = index[d]
            /\ i_try[c] = i_try[d]
            /\ result[c] = result[d]

\* the locals of a call
Locals(c) ==
    <<pc[c], err[c], req[c], short_cycle_idx[c], index[c], i_try[c], sp[c],
      result[c], hist[c], subs[c], tgt[c]>>

\* C10: under any interleaving of calls no step writes the dataset index,
\* which stays as construction left it, and every step changes the attempt
\* counter, the current index and the other locals of one call at most
C10_IndexReadOnly ==
    [][/\ dsvars' = dsvars
       /\ CurrentIndex' = built
       /\ \E c \in Callers : \A d \in Callers \ {c} : Locals(d)' = Locals(d)]_vars

\* two calls are in their loops at different attempts, one of them on a
\* substituted index, the other one having failed too
C10_Witness ==
    \E c, d \in Callers :
        /\ c # d
        /\ pc[c] = "loop" /\ pc[d] = "loop"
        /\ i_try[c] # i_try[d] /\ i_try[d] > 0
        /\ index[c] # req[c]
        /\ index[d] = req[d]
        /\ CurrentIndex = built

\* C11: in raw-video mode an attempt whose container opener raised is a
\* soft failure: it is counted, its exception does not leave the call, and
\* the loop goes on to the next attempt or to exhaustion
C11_OpenerSoftFail ==
    \A c \in Callers :
        (~cfg.USE_FRAME_SEQUENCES /\ hist[c] # <<>> /\ Last(hist[c]) = "open_fail") =>
            /\ i_try[c] = Len(hist[c])
            /\ pc[c] = "loop" \/ (pc[c] = "raised" /\ err[c] = "RuntimeError")
            /\ pc[c] = "raised" => Len(hist[c]) = num_retries

\* a raw-video call goes on after two opener failures
C11_Witness ==
    \E c \in Callers :
        /\ ~cfg.USE_FRAME_SEQUENCES
        /\ pc[c] = "loop"
        /\ i_try[c] < num_retries
        /\ Len(hist[c]) >= 2
        /\ \A k \in DOMAIN hist[c] : hist[c][k] = "open_fail"

\* the call c has ended
Ended(c) == pc[c] \in {"returned", "raised"}

\* C12: a call makes at most num_retries attempts, returns at its first
\* successful attempt, and raises the exhaustion error iff all num_retries
\* attempts failed (at once when num_retries is 0)
C12_BoundedRetries ==
    \A c \in Callers :
        /\ Len(hist[c]) <= num_retries
        /\ \A k \in DOMAIN hist[c] : hist[c][k] = "ok" => k = Len(hist[c])
        /\ (pc[c] # "idle" /\ hist[c] # <<>> /\ Last(hist[c]) = "ok") =>
               pc[c] = "returned"
        /\ Ended(c) =>
               ((pc[c] = "raised" /\ err[c] = "RuntimeError") <=>
                   (/\ Len(hist[c]) = num_retries
                    /\ \A k \in DOMAIN hist[c] : hist[c][k] \in Failures))

\* a train or val call has resolved its parameters
TrainCall(c) == mode \in {"train", "val"} /\ pc[c] # "idle"

\* C13 as stated: a train/val call with a plain index uses crop_size,
\* min_scale and max_scale as configured; crop_size and min_scale differ from
\* the configuration only for a short cycle index 0 or 1, max_scale never
C13_Original ==
    \A c \in Callers :
        TrainCall(c) =>
            /\ sp[c].max_scale = cfg.TRAIN_JITTER_SCALES[2]
            /\ short_cycle_idx[c] \notin {0, 1} =>
                   /\ sp[c].crop_size = cfg.TRAIN_CROP_SIZE
                   /\ sp[c].min_scale = cfg.TRAIN_JITTER_SCALES[1]

\* C13 amended: a train/val call uses max_scale as configured, and crop_size
\* as configured unless a short cycle index 0 or 1 is supplied; min_scale is
\* as configured when MULTIGRID.DEFAULT_S is not positive, and else it is
\* round(min_scale * crop_size / DEFAULT_S), also for a plain index
C13_TrainScales ==
    \A c \in Callers :
        TrainCall(c) =>
            /\ sp[c].max_scale = cfg.TRAIN_JITTER_SCALES[2]
            /\ short_cycle_idx[c] \notin {0, 1} =>
                   sp[c].crop_size = cfg.TRAIN_CROP_SIZE
            /\ cfg.DEFAULT_S <= 0 =>
                   sp[c].min_scale = cfg.TRAIN_JITTER_SCALES[1]
            /\ cfg.DEFAULT_S > 0 =>
                   \* the quotient is within a half of the rounded value
                   /\ 2 * cfg.DEFAULT_S * sp[c].min_scale
                          - 2 * cfg.TRAIN_JITTER_SCALES[1] * sp[c].crop_size
                          <= cfg.DEFAULT_S
                   /\ 2 * cfg.TRAIN_JITTER_SCALES[1] * sp[c].crop_size
                          - 2 * cfg.DEFAULT_S * sp[c].min_scale
                          <= cfg.DEFAULT_S

\* a call with a plain index runs with a min_scale that is not the
\* configured one
C13_Witness ==
    \E c \in Callers :
        /\ TrainCall(c)
        /\ pc[c] = "loop"
        /\ short_cycle_idx[c] = None
        /\ sp[c].crop_size = cfg.TRAIN_CROP_SIZE
        /\ sp[c].min_scale # cfg.TRAIN_JITTER_SCALES[1]

\* C14: a call for an index of the dataset keeps its current index in
\* [0, dataset_size) at every attempt, whatever was substituted, so every
\* path, label and metadata entry it reads exists
C14_IndexInRange ==
    \A c \in Callers :
        (pc[c] # "idle" /\ req[c] \in 0 .. (DatasetLen - 1)) =>
            /\ index[c] \in 0 .. (DatasetLen - 1)
            /\ index[c] + 1 \in DOMAIN path_to_videos
            /\ index[c] + 1 \in DOMAIN labels
            /\ index[c] \in DOMAIN video_meta
            /\ \A k \in DOMAIN tgt[c] : tgt[c][k] \in 0 .. (DatasetLen - 1)

\* an attempt was made on a substituted index, the last of the dataset
C14_Witness ==
    \E c \in Callers :
        /\ pc[c] = "loop"
        /\ \E k \in DOMAIN tgt[c] :
              tgt[c][k] # req[c] /\ tgt[c][k] = DatasetLen - 1
        /\ \E k \in DOMAIN subs[c] : subs[c][k]

\* C15: in train/val mode the first num_retries // 2 + 2 attempts target the
\* requested index, so a returned index that differs from it comes after at
\* least num_retries // 2 + 2 failed attempts; for num_retries <= 4 no
\* substituted index is attempted and a successful call returns the requested
\* index; the index chosen after the last failed attempt is never tried
C15_SubstitutionDelay ==
    \A c \in Callers :
        mode \in {"train", "val"} =>
            /\ \A k \in DOMAIN tgt[c] :
                  k <= (num_retries \div 2) + 2 => tgt[c][k] = req[c]
            /\ (pc[c] = "returned" /\ result[c].index # req[c]) =>
                  Len(hist[c]) - 1 >= (num_retries \div 2) + 2
            /\ num_retries <= 4 =>
                  /\ \A k \in DOMAIN tgt[c] : tgt[c][k] = req[c]
                  /\ pc[c] = "returned" => result[c].index = req[c]
            /\ Len(tgt[c]) <= num_retries
            /\ (Len(subs[c]) = num_retries /\ pc[c] # "returned") =>
                  ~ENABLED (OpenFail(c) \/ FrameCheckFail(c) \/ DecodeFail(c)
                            \/ Success(c))

\* a call returns a substituted index from the first attempt that can
\* target one, after num_retries // 2 + 2 failed attempts
C15_Witness ==
    \E c \in Callers :
        /\ mode \in {"train", "val"}
        /\ pc[c] = "returned"
        /\ result[c].index # req[c]
        /\ Len(hist[c]) = (num_retries \div 2) + 3
        /\ \A k \in 1 .. ((num_retries \div 2) + 2) : tgt[c][k] = req[c]

\* C16: the sampling parameters and the sampling rate are resolved before
\* the first attempt and stay as they are in every step of the loop, also
\* when the index is substituted; a failed attempt that goes on changes the
\* current index and the attempt counter only
C16_ParamsFixed ==
    [][\A c \in Callers :
         /\ pc[c] = "loop" =>
               /\ sp'[c] = sp[c]
               /\ req'[c] = req[c]
               /\ short_cycle_idx'[c] = short_cycle_idx[c]
         /\ SoftFailStep(c) =>
               /\ i_try'[c] = i_try[c] + 1
               /\ <<pc'[c], err'[c], result'[c]>> = <<pc[c], err[c], result[c]>>]_vars

\* an attempt on a substituted index is due, with a sampling rate that is
\* not the configured one
C16_Witness ==
    \E c \in Callers :
        /\ pc[c] = "loop"
        /\ i_try[c] < num_retries
        /\ index[c] # req[c]
        /\ \E k \in DOMAIN subs[c] : subs[c][k]
        /\ sp[c].sampling_rate # cfg.SAMPLING_RATE

\* C17: every entry of the index has spatial_temporal_index 0, as there is
\* one clip per video in every mode, so every test call uses
\* temporal_sample_index 0 and spatial_sample_index 0 for several spatial
\* crops and 1 for one
C17_SingleClip ==
    /\ \A i \in DOMAIN spatial_temporal_idx : spatial_temporal_idx[i] = 0
    /\ \A c \in Callers :
          TestCall(c) =>
             /\ sp[c].temporal_sample_index = 0
             /\ sp[c].spatial_sample_index =
                    (IF cfg.NUM_SPATIAL_CROPS > 1 THEN 0 ELSE 1)

\* a test call for the second entry of the index is in its loop, with
\* several spatial crops
C17_Witness ==
    \E c \in Callers :
        /\ TestCall(c)
        /\ pc[c] = "loop"
        /\ req[c] >= 1
        /\ cfg.NUM_SPATIAL_CROPS > 1
        /\ sp[c].spatial_sample_index = 0

====
